---- MODULE Spec2Model ----
(***************************************************************************)
(* Model of `gh project link` (pkg/cmd/project/link/link.go).              *)
(*                                                                         *)
(* One behaviour of the model is one invocation of the cobra command built *)
(* by NewCmdLink: the RunE closure, then runLink, then linkRepo or         *)
(* linkTeam, then printResults.  The collaborators the command calls       *)
(* (client.New, Client.NewOwner, Client.NewProject, the HTTP client        *)
(* factory, api.GitHubRepo, api.OrganizationTeam, Client.Mutate, the       *)
(* exporter and the stdout writer) are outside the file: each call is an   *)
(* action whose result is chosen nondeterministically between an error and *)
(* a value, and every call is appended to the log `calls`.                 *)
(***************************************************************************)
EXTENDS Integers, Sequences, FiniteSets, TLC

VARIABLES
    args,       \* positional arguments handed to RunE (sequence of strings)
    repo,       \* opts.repo   (--repo / -R)
    team,       \* opts.team   (--team / -T)
    ownerFlag,  \* opts.owner  (--owner)
    exporter,   \* opts.exporter != nil
    runF,       \* the runF parameter of NewCmdLink is non-nil
    isTTY,      \* config.io.IsStdoutTTY()
    canPrompt,  \* config.io.CanPrompt()
    pc,         \* position of the invocation in the code
    number,     \* opts.number
    owner,      \* *queries.Owner returned by NewOwner (its Login), "" before
    projectID,  \* config.opts.projectID
    repoID,     \* config.opts.repoID
    teamID,     \* config.opts.teamID
    entity,     \* the entity Mutate decoded into the query struct
    calls,      \* log of the collaborator calls made so far
    hookCalled, \* runF(config) has been invoked
    out,        \* writes handed to config.io.Out, in order
    ret         \* value returned by RunE

vars == <<args, repo, team, ownerFlag, exporter, runF, isTTY, canPrompt, pc,
          number, owner, projectID, repoID, teamID, entity, calls,
          hookCalled, out, ret>>

inputs == <<args, repo, team, ownerFlag, exporter, runF, isTTY, canPrompt>>

----------------------------------------------------------------------------
(* Bounds and value sets *)

MaxArgs == 2

DigitChars == {"0", "1", "2", "3", "4", "5", "6", "7", "8", "9"}

\* Strings are sequences of one-character strings.
ArgTokens ==
    { <<"7">>,
      <<"-", "3">>,
      <<"x">>,
      <<>>,
      <<"2", "1", "4", "7", "4", "8", "3", "6", "4", "7">>,
      <<"2", "1", "4", "7", "4", "8", "3", "6", "4", "8">> }

RECURSIVE SeqsUpTo(_, _)
SeqsUpTo(S, n) ==
    IF n = 0 THEN { <<>> }
    ELSE LET shorter == SeqsUpTo(S, n - 1)
         IN  shorter \cup { Append(s, x) : s \in shorter, x \in S }

RepoNames  == {"", "my_repo"}
TeamNames  == {"", "my_team"}
OwnerFlags == {"@me"}
Logins     == {"monalisa", "my_organization"}
ProjectIDs == {"P1", "P2"}
RepoIDs    == {"R1", "R2"}
TeamIDs    == {"T1", "T2"}
URLs       == {"url1", "url2"}
ErrCodes   == {"e1", "e2"}

----------------------------------------------------------------------------
(* Error values *)

Running == [kind |-> "running", msg |-> <<>>]
Nil     == [kind |-> "nil", msg |-> <<>>]

\* cmdutil.FlagErrorf: an error of type *cmdutil.FlagError
FlagErrorf(prefix, value) == [kind |-> "FlagError", msg |-> <<prefix>> \o value]

\* fmt.Errorf: a plain error (the message texts are written without the
\* backquotes the source puts around the flag names)
Errorf(text) == [kind |-> "error", msg |-> <<text>>]

\* an error produced by a collaborator
ExtErr(step, code) == [kind |-> "external", msg |-> <<step, code>>]

ExtErrs(step) == { ExtErr(step, c) : c \in ErrCodes }

----------------------------------------------------------------------------
(* strconv.ParseInt(s, 10, 32) *)

DigitVal(c) ==
    CASE c = "0" -> 0 [] c = "1" -> 1 [] c = "2" -> 2 [] c = "3" -> 3
      [] c = "4" -> 4 [] c = "5" -> 5 [] c = "6" -> 6 [] c = "7" -> 7
      [] c = "8" -> 8 [] c = "9" -> 9

IsNeg(s) == s # <<>> /\ s[1] = "-"

StripSign(s) == IF s # <<>> /\ s[1] \in {"+", "-"} THEN Tail(s) ELSE s

\* base 10: a non-empty run of decimal digits after the optional sign
SyntaxOK(s) ==
    LET d == StripSign(s)
    IN  d # <<>> /\ \A i \in DOMAIN d : d[i] \in DigitChars

RECURSIVE StripZeros(_)
StripZeros(d) ==
    IF Len(d) > 1 /\ d[1] = "0" THEN StripZeros(Tail(d)) ELSE d

\* 1 << (bitSize - 1) for bitSize 32, as decimal digits
Cutoff == <<"2", "1", "4", "7", "4", "8", "3", "6", "4", "8">>

\* a < b for digit strings without leading zeros
RECURSIVE DigitsLess(_, _)
DigitsLess(a, b) ==
    IF Len(a) # Len(b) THEN Len(a) < Len(b)
    ELSE IF a = <<>> THEN FALSE
    ELSE IF a[1] # b[1] THEN DigitVal(a[1]) < DigitVal(b[1])
    ELSE DigitsLess(Tail(a), Tail(b))

InRange(s) ==
    LET m == StripZeros(StripSign(s))
    IN  IF IsNeg(s) THEN DigitsLess(m, Cutoff) \/ m = Cutoff
        ELSE DigitsLess(m, Cutoff)

\* the negated magnitude, accumulated below zero so that -2^31 is reachable
RECURSIVE NegMagnitude(_, _)
NegMagnitude(d, acc) ==
    IF d = <<>> THEN acc
    ELSE NegMagnitude(Tail(d), 10 * acc - DigitVal(d[1]))

ParseIntAcceptAll(s) == [ok |-> TRUE, val |-> 0]

ParseInt(s) ==
    IF SyntaxOK(s) /\ InRange(s)
    THEN [ok  |-> TRUE,
          val |-> IF IsNeg(s) THEN NegMagnitude(StripSign(s), 0)
                  ELSE 0 - NegMagnitude(StripSign(s), 0)]
    ELSE [ok |-> FALSE, val |-> 0]

----------------------------------------------------------------------------
(* Call log *)

Call(step, input, output, err) ==
    [step |-> step, input |-> input, output |-> output, err |-> err]

\* config.opts.repo != ""
RepoSet == repo # ""

\* config.opts.team != ""
TeamSet == team # ""

Return(e) == /\ pc' = "done"
             /\ ret' = e

----------------------------------------------------------------------------
(* Initial state: the flags are parsed, RunE has not started *)

Init ==
    /\ args \in SeqsUpTo(ArgTokens, MaxArgs)
    /\ repo \in RepoNames
    /\ team \in TeamNames
    /\ ownerFlag \in OwnerFlags
    /\ exporter \in BOOLEAN
    /\ runF \in BOOLEAN
    /\ isTTY \in BOOLEAN
    /\ canPrompt \in BOOLEAN
    /\ (canPrompt => isTTY)
    /\ pc = "clientNew"
    /\ number = 0
    /\ owner = ""
    /\ projectID = ""
    /\ repoID = ""
    /\ teamID = ""
    /\ entity = [kind |-> "", url |-> ""]
    /\ calls = <<>>
    /\ hookCalled = FALSE
    /\ out = <<>>
    /\ ret = Running

----------------------------------------------------------------------------
(* RunE closure of NewCmdLink *)

\* client, err := client.New(f); if err != nil { return err }
ClientNew ==
    /\ pc = "clientNew"
    /\ \E e \in {Nil} \cup ExtErrs("client.New") :
         /\ calls' = Append(calls, Call("client.New", <<>>, <<>>, e))
         /\ IF e # Nil THEN Return(e)
            ELSE pc' = "parseArgs" /\ UNCHANGED ret
    /\ UNCHANGED <<inputs, number, owner, projectID, repoID, teamID, entity,
                   hookCalled, out>>

\* if len(args) == 1 { num, err := strconv.ParseInt(args[0], 10, 32) ... }
ParseArgs ==
    /\ pc = "parseArgs"
    /\ IF Len(args) = 1
       THEN LET r == ParseInt(args[1])
            IN  IF ~r.ok
                THEN /\ Return(FlagErrorf("invalid number: ", args[1]))
                     /\ UNCHANGED number
                ELSE /\ number' = r.val
                     /\ pc' = "validate"
                     /\ UNCHANGED ret
       ELSE /\ pc' = "validate"
            /\ UNCHANGED <<number, ret>>
    /\ UNCHANGED <<inputs, owner, projectID, repoID, teamID, entity, calls,
                   hookCalled, out>>

ValidateFlagsAllowNeither ==
    /\ pc = "validate"
    /\ IF RepoSet /\ TeamSet
       THEN Return(Errorf("specify only one of --repo or --team"))
       ELSE pc' = "dispatch" /\ UNCHANGED ret
    /\ UNCHANGED <<inputs, number, owner, projectID, repoID, teamID, entity,
                   calls, hookCalled, out>>

\* the exactly-one-of check on config.opts.repo / config.opts.team
ValidateFlags ==
    /\ pc = "validate"
    /\ IF RepoSet /\ TeamSet
       THEN Return(Errorf("specify only one of --repo or --team"))
       ELSE IF ~RepoSet /\ ~TeamSet
       THEN Return(Errorf("specify either --repo or --team"))
       ELSE pc' = "dispatch" /\ UNCHANGED ret
    /\ UNCHANGED <<inputs, number, owner, projectID, repoID, teamID, entity,
                   calls, hookCalled, out>>

\* if runF != nil { return runF(config) }: the hook decides the result
RunHook ==
    /\ pc = "dispatch"
    /\ runF
    /\ hookCalled' = TRUE
    /\ \E e \in {Nil} \cup ExtErrs("runF") : Return(e)
    /\ UNCHANGED <<inputs, number, owner, projectID, repoID, teamID, entity,
                   calls, out>>

----------------------------------------------------------------------------
(* runLink *)

\* return runLink(config); owner, err := config.client.NewOwner(...)
NewOwner ==
    /\ pc = "dispatch"
    /\ ~runF
    /\ \/ \E e \in ExtErrs("NewOwner") :
            /\ calls' = Append(calls,
                   Call("NewOwner", <<canPrompt, ownerFlag>>, <<>>, e))
            /\ Return(e)
            /\ UNCHANGED owner
       \/ \E login \in Logins :
            /\ calls' = Append(calls,
                   Call("NewOwner", <<canPrompt, ownerFlag>>, <<login>>, Nil))
            /\ owner' = login
            /\ pc' = "newProject"
            /\ UNCHANGED ret
    /\ UNCHANGED <<inputs, number, projectID, repoID, teamID, entity,
                   hookCalled, out>>

\* project, err := config.client.NewProject(canPrompt, owner, number, false)
NewProject ==
    /\ pc = "newProject"
    /\ \/ \E e \in ExtErrs("NewProject") :
            /\ calls' = Append(calls,
                   Call("NewProject", <<canPrompt, owner, number>>, <<>>, e))
            /\ Return(e)
            /\ UNCHANGED projectID
       \/ \E id \in ProjectIDs :
            /\ calls' = Append(calls,
                   Call("NewProject", <<canPrompt, owner, number>>, <<id>>, Nil))
            /\ projectID' = id
            /\ pc' = "httpClient"
            /\ UNCHANGED ret
    /\ UNCHANGED <<inputs, number, owner, repoID, teamID, entity,
                   hookCalled, out>>

HttpClientSkipLookup ==
    /\ pc = "httpClient"
    /\ \E e \in {Nil} \cup ExtErrs("httpClient") :
         /\ calls' = Append(calls, Call("httpClient", <<>>, <<>>, e))
         /\ IF e # Nil THEN Return(e)
            ELSE IF RepoSet THEN pc' = "mutateRepo" /\ UNCHANGED ret
            ELSE IF TeamSet THEN pc' = "mutateTeam" /\ UNCHANGED ret
            ELSE Return(Nil)
    /\ UNCHANGED <<inputs, number, owner, projectID, repoID, teamID, entity,
                   hookCalled, out>>

\* httpClient, err := config.httpClient(); then the repo/team branch
HttpClient ==
    /\ pc = "httpClient"
    /\ \E e \in {Nil} \cup ExtErrs("httpClient") :
         /\ calls' = Append(calls, Call("httpClient", <<>>, <<>>, e))
         /\ IF e # Nil THEN Return(e)
            ELSE IF RepoSet THEN pc' = "linkRepo" /\ UNCHANGED ret
            ELSE IF TeamSet THEN pc' = "linkTeam" /\ UNCHANGED ret
            ELSE Return(Nil)
    /\ UNCHANGED <<inputs, number, owner, projectID, repoID, teamID, entity,
                   hookCalled, out>>

----------------------------------------------------------------------------
(* Mutation payloads *)

linkRepoArgsWithTeam(pid, rid, tid) ==
    [ProjectID |-> pid, RepositoryID |-> rid, TeamID |-> tid]

\* githubv4.LinkProjectV2ToRepositoryInput{ProjectID, RepositoryID}
linkRepoArgs(pid, rid, tid) ==
    [ProjectID |-> pid, RepositoryID |-> rid]

linkTeamArgsRepoID(pid, rid, tid) ==
    [ProjectID |-> pid, TeamID |-> rid]

\* githubv4.LinkProjectV2ToTeamInput{ProjectID, TeamID}
linkTeamArgs(pid, rid, tid) ==
    [ProjectID |-> pid, TeamID |-> tid]

----------------------------------------------------------------------------
(* Result presenter *)

Written(via, data) == [via |-> via, data |-> data]

\* the exporter's rendering of an entity: all of its fields
Serialize(e) == <<e.kind, e.url>>

printResultsAlways(url) ==
    \E e \in {Nil} \cup ExtErrs("Fprintf") :
        /\ out' = Append(out, Written("Fprintf", <<url, "\n">>))
        /\ Return(e)

\* if !IsStdoutTTY() { return nil }; _, err := fmt.Fprintf(Out, "%s\n", url)
printResults(url) ==
    IF ~isTTY
    THEN /\ out' = out
         /\ Return(Nil)
    ELSE \E e \in {Nil} \cup ExtErrs("Fprintf") :
            /\ out' = Append(out, Written("Fprintf", <<url, "\n">>))
            /\ Return(e)

\* return config.opts.exporter.Write(config.io, value)
exporterWrite(value) ==
    \E e \in {Nil} \cup ExtErrs("exporter.Write") :
        /\ out' = Append(out, Written("exporter", Serialize(value)))
        /\ Return(e)

----------------------------------------------------------------------------
(* linkRepo *)

GitHubRepoWrapErr ==
    /\ pc = "linkRepo"
    /\ \/ \E e \in ExtErrs("GitHubRepo") :
            /\ calls' = Append(calls,
                   Call("GitHubRepo", <<owner, repo>>, <<>>, e))
            /\ Return(Errorf("repository not found"))
            /\ UNCHANGED repoID
       \/ \E id \in RepoIDs :
            /\ calls' = Append(calls,
                   Call("GitHubRepo", <<owner, repo>>, <<id>>, Nil))
            /\ repoID' = id
            /\ pc' = "mutateRepo"
            /\ UNCHANGED ret
    /\ UNCHANGED <<inputs, number, owner, projectID, teamID, entity,
                   hookCalled, out>>

\* repo, err := api.GitHubRepo(c, ghrepo.New(owner.Login, config.opts.repo))
GitHubRepo ==
    /\ pc = "linkRepo"
    /\ \/ \E e \in ExtErrs("GitHubRepo") :
            /\ calls' = Append(calls,
                   Call("GitHubRepo", <<owner, repo>>, <<>>, e))
            /\ Return(e)
            /\ UNCHANGED repoID
       \/ \E id \in RepoIDs :
            /\ calls' = Append(calls,
                   Call("GitHubRepo", <<owner, repo>>, <<id>>, Nil))
            /\ repoID' = id
            /\ pc' = "mutateRepo"
            /\ UNCHANGED ret
    /\ UNCHANGED <<inputs, number, owner, projectID, teamID, entity,
                   hookCalled, out>>

MutateCall(name, payload, output, err) ==
    Call("Mutate", [name |-> name, vars |-> payload], output, err)

MutateRepoRetry ==
    /\ pc = "mutateRepo"
    /\ LET payload == linkRepoArgs(projectID, repoID, teamID)
           name == "LinkProjectV2ToRepository"
       IN  \/ \E e \in ExtErrs("Mutate"), u \in URLs :
                /\ calls' = calls \o
                       << MutateCall(name, payload, <<>>, e),
                          MutateCall(name, payload, <<"Repository", u>>, Nil) >>
                /\ entity' = [kind |-> "Repository", url |-> u]
                /\ pc' = "presentRepo"
                /\ UNCHANGED ret
           \/ \E u \in URLs :
                /\ calls' = Append(calls,
                       MutateCall(name, payload, <<"Repository", u>>, Nil))
                /\ entity' = [kind |-> "Repository", url |-> u]
                /\ pc' = "presentRepo"
                /\ UNCHANGED ret
    /\ UNCHANGED <<inputs, number, owner, projectID, repoID, teamID,
                   hookCalled, out>>

\* query, variable := linkRepoArgs(config); err = config.client.Mutate(...)
MutateRepo ==
    /\ pc = "mutateRepo"
    /\ LET payload == linkRepoArgs(projectID, repoID, teamID)
           name == "LinkProjectV2ToRepository"
       IN  \/ \E e \in ExtErrs("Mutate") :
                /\ calls' = Append(calls, MutateCall(name, payload, <<>>, e))
                /\ Return(e)
                /\ UNCHANGED entity
           \/ \E u \in URLs :
                /\ calls' = Append(calls,
                       MutateCall(name, payload, <<"Repository", u>>, Nil))
                /\ entity' = [kind |-> "Repository", url |-> u]
                /\ pc' = "presentRepo"
                /\ UNCHANGED ret
    /\ UNCHANGED <<inputs, number, owner, projectID, repoID, teamID,
                   hookCalled, out>>

PresentRepoNoExporter ==
    /\ pc = "presentRepo"
    /\ printResults(entity.url)
    /\ UNCHANGED <<inputs, number, owner, projectID, repoID, teamID, entity,
                   calls, hookCalled>>

\* exporter.Write(io, ...Repository) or printResults(config, ...Repository.URL)
PresentRepo ==
    /\ pc = "presentRepo"
    /\ IF exporter THEN exporterWrite(entity)
       ELSE printResults(entity.url)
    /\ UNCHANGED <<inputs, number, owner, projectID, repoID, teamID, entity,
                   calls, hookCalled>>

----------------------------------------------------------------------------
(* linkTeam *)

\* team, err := api.OrganizationTeam(c, ghrepo.New(owner.Login, ""), team)
OrganizationTeam ==
    /\ pc = "linkTeam"
    /\ \/ \E e \in ExtErrs("OrganizationTeam") :
            /\ calls' = Append(calls,
                   Call("OrganizationTeam", <<owner, "", team>>, <<>>, e))
            /\ Return(e)
            /\ UNCHANGED teamID
       \/ \E id \in TeamIDs :
            /\ calls' = Append(calls,
                   Call("OrganizationTeam", <<owner, "", team>>, <<id>>, Nil))
            /\ teamID' = id
            /\ pc' = "mutateTeam"
            /\ UNCHANGED ret
    /\ UNCHANGED <<inputs, number, owner, projectID, repoID, entity,
                   hookCalled, out>>

\* query, variable := linkTeamArgs(config); err = config.client.Mutate(...)
MutateTeam ==
    /\ pc = "mutateTeam"
    /\ LET payload == linkTeamArgs(projectID, repoID, teamID)
           name == "LinkProjectV2ToTeam"
       IN  \/ \E e \in ExtErrs("Mutate") :
                /\ calls' = Append(calls, MutateCall(name, payload, <<>>, e))
                /\ Return(e)
                /\ UNCHANGED entity
           \/ \E u \in URLs :
                /\ calls' = Append(calls,
                       MutateCall(name, payload, <<"Team", u>>, Nil))
                /\ entity' = [kind |-> "Team", url |-> u]
                /\ pc' = "presentTeam"
                /\ UNCHANGED ret
    /\ UNCHANGED <<inputs, number, owner, projectID, repoID, teamID,
                   hookCalled, out>>

\* exporter.Write(io, ...Team) or printResults(config, ...Team.URL)
PresentTeam ==
    /\ pc = "presentTeam"
    /\ IF exporter THEN exporterWrite(entity)
       ELSE printResults(entity.url)
    /\ UNCHANGED <<inputs, number, owner, projectID, repoID, teamID, entity,
                   calls, hookCalled>>

----------------------------------------------------------------------------

Next ==
    \/ ClientNew
    \/ ParseArgs
    \/ ValidateFlags
    \/ RunHook
    \/ NewOwner
    \/ NewProject
    \/ HttpClient
    \/ GitHubRepo
    \/ MutateRepo
    \/ PresentRepo
    \/ OrganizationTeam
    \/ MutateTeam
    \/ PresentTeam

Spec == Init /\ [][Next]_vars

----------------------------------------------------------------------------
(* Reading the call log *)

CallIdx(step) == { i \in DOMAIN calls : calls[i].step = step }

Succeeded(step) == \E i \in CallIdx(step) : calls[i].err = Nil

\* the value returned by the successful call of `step`
ResultOf(step) ==
    calls[CHOOSE i \in CallIdx(step) : calls[i].err = Nil].output

Mutations == CallIdx("Mutate")

MutationOK == Succeeded("Mutate")

BothTargets == RepoSet /\ TeamSet

NoTarget == ~RepoSet /\ ~TeamSet

RunLinkEntered == CallIdx("NewOwner") # {}

\* the invocation got past client.New and the argument parsing
ReachedFlagCheck ==
    /\ Succeeded("client.New")
    /\ Len(args) = 1 => ParseInt(args[1]).ok

\* a decimal integer literal: an optional sign, then one or more digits
IsDecimalInteger(s) ==
    \E k \in 0..1 :
        /\ Len(s) > k
        /\ (k = 1 => s[1] \in {"+", "-"})
        /\ \A i \in (k + 1)..Len(s) : s[i] \in DigitChars

NetworkSteps ==
    {"NewOwner", "NewProject", "GitHubRepo", "OrganizationTeam", "Mutate"}

Rank(step) ==
    CASE step = "NewOwner" -> 1
      [] step = "NewProject" -> 2
      [] step \in {"GitHubRepo", "OrganizationTeam"} -> 3
      [] step = "Mutate" -> 4

NetworkIdx == { i \in DOMAIN calls : calls[i].step \in NetworkSteps }

----------------------------------------------------------------------------
(* Claims *)

C2_Original ==
    \A i \in DOMAIN args :
        ~IsDecimalInteger(args[i]) =>
            /\ number = 0
            /\ pc = "done" => ret = FlagErrorf("invalid number: ", args[i])

\* C2 (amended): when client.New succeeds and exactly one positional argument
\* is given, a non-numeric argument makes the command fail with the usage
\* error "invalid number: <argument>"; in every invocation the project number
\* stays unset when a positional argument is non-numeric.
C2_NonNumericArgRejected ==
    /\ (pc = "done" /\ Succeeded("client.New") /\ Len(args) = 1
            /\ ~IsDecimalInteger(args[1]))
          => ret = FlagErrorf("invalid number: ", args[1])
    /\ (\E i \in DOMAIN args : ~IsDecimalInteger(args[i])) => number = 0

C2_Witness ==
    /\ pc = "done"
    /\ Succeeded("client.New")
    /\ args = << <<"x">> >>
    /\ ret.kind = "FlagError"

\* C3: with --repo set, once owner, project and repository are resolved the
\* mutation issued is LinkProjectV2ToRepository and its input holds exactly
\* the project ID and the repository ID returned by this run's lookups.
C3_RepoMutationPayload ==
    /\ \A i \in Mutations :
          RepoSet =>
            /\ calls[i].input.name = "LinkProjectV2ToRepository"
            /\ Succeeded("NewProject")
            /\ Succeeded("GitHubRepo")
            /\ calls[i].input.vars =
                  [ProjectID    |-> ResultOf("NewProject")[1],
                   RepositoryID |-> ResultOf("GitHubRepo")[1]]
    /\ (pc = "done" /\ RepoSet /\ Succeeded("GitHubRepo")) => Mutations # {}

C3_Witness ==
    /\ pc = "done"
    /\ RepoSet
    /\ Succeeded("NewOwner")
    /\ Succeeded("NewProject")
    /\ Succeeded("GitHubRepo")
    /\ Mutations # {}

\* C4: with --team set, once owner, project and team are resolved the
\* mutation issued is LinkProjectV2ToTeam and its input holds exactly the
\* project ID and the team ID returned by this run's lookups.
C4_TeamMutationPayload ==
    /\ \A i \in Mutations :
          TeamSet =>
            /\ calls[i].input.name = "LinkProjectV2ToTeam"
            /\ Succeeded("NewProject")
            /\ Succeeded("OrganizationTeam")
            /\ calls[i].input.vars =
                  [ProjectID |-> ResultOf("NewProject")[1],
                   TeamID    |-> ResultOf("OrganizationTeam")[1]]
    /\ (pc = "done" /\ TeamSet /\ Succeeded("OrganizationTeam"))
          => Mutations # {}

C4_Witness ==
    /\ pc = "done"
    /\ TeamSet
    /\ Succeeded("NewOwner")
    /\ Succeeded("NewProject")
    /\ Succeeded("OrganizationTeam")
    /\ Mutations # {}

\* C5: after a successful mutation with no exporter, a non-terminal stdout
\* gets nothing and the command returns success; a terminal stdout gets
\* exactly the URL of the entity the mutation returned, then a newline.
C5_UrlOnlyOnTerminal ==
    (pc = "done" /\ MutationOK /\ ~exporter) =>
        IF ~isTTY
        THEN out = <<>> /\ ret = Nil
        ELSE out = << Written("Fprintf", <<ResultOf("Mutate")[2], "\n">>) >>

C5_Witness ==
    /\ pc = "done"
    /\ MutationOK
    /\ ~exporter
    /\ ~isTTY
    /\ ret = Nil

\* C6: after a successful mutation with an exporter set, on either path and
\* whatever the terminal state, the only output is the exporter's
\* serialization of the entity the mutation returned.
C6_ExporterOnly ==
    (pc = "done" /\ MutationOK /\ exporter) =>
        out = << Written("exporter", ResultOf("Mutate")) >>

C6_Witness ==
    /\ pc = "done"
    /\ MutationOK
    /\ exporter
    /\ isTTY
    /\ RepoSet
    /\ Len(out) = 1

\* C7 (as stated): the mutation is executed at most once per run, exactly
\* once in every run that returns success, and never retried after a failure.
C7_Original ==
    /\ Cardinality(Mutations) <= 1
    /\ (pc = "done" /\ ret = Nil) => Cardinality(Mutations) = 1
    /\ \A i \in Mutations : calls[i].err # Nil => i = Len(calls)

\* C7 (amended): the mutation is executed at most once per run and never
\* retried after a failure; it is executed exactly once in every run that
\* returns success without the runF hook installed.
C7_SingleMutation ==
    /\ Cardinality(Mutations) <= 1
    /\ (pc = "done" /\ ret = Nil /\ ~runF) => Cardinality(Mutations) = 1
    /\ \A i \in Mutations : calls[i].err # Nil => i = Len(calls)

C7_Witness ==
    /\ pc = "done"
    /\ ret = Nil
    /\ ~runF
    /\ Cardinality(Mutations) = 1

\* C8: when a step returns an error it is the last step of the run, nothing
\* has been written to stdout, and the command returns that very error.
C8_FirstFailureTerminates ==
    \A i \in DOMAIN calls :
        calls[i].err # Nil =>
            /\ i = Len(calls)
            /\ out = <<>>
            /\ pc = "done"
            /\ ret = calls[i].err

C8_Witness ==
    /\ pc = "done"
    /\ calls # <<>>
    /\ calls[Len(calls)].step = "GitHubRepo"
    /\ calls[Len(calls)].err # Nil
    /\ ret = calls[Len(calls)].err

\* C9: the network steps occur in the order owner, project, target, mutation;
\* a mutation is preceded by a successful owner, project and target lookup of
\* the same run; repository and team lookups never both occur.
C9_StepOrder ==
    /\ \A i, j \in NetworkIdx :
          i < j => Rank(calls[i].step) < Rank(calls[j].step)
    /\ \A m \in Mutations :
          /\ \E i \in 1..(m - 1) :
                calls[i].step = "NewOwner" /\ calls[i].err = Nil
          /\ \E i \in 1..(m - 1) :
                calls[i].step = "NewProject" /\ calls[i].err = Nil
          /\ \E i \in 1..(m - 1) :
                /\ calls[i].step \in {"GitHubRepo", "OrganizationTeam"}
                /\ calls[i].err = Nil
    /\ ~(CallIdx("GitHubRepo") # {} /\ CallIdx("OrganizationTeam") # {})

C9_Witness ==
    /\ pc = "done"
    /\ CallIdx("OrganizationTeam") # {}
    /\ Mutations # {}

\* C10: when the single positional argument is non-numeric, or both or
\* neither of --repo and --team are set, no owner, project or target lookup
\* and no mutation is performed, and nothing is written to stdout.
C10_NoNetworkOnInvalidArgs ==
    ((Len(args) = 1 /\ ~IsDecimalInteger(args[1])) \/ BothTargets \/ NoTarget)
        => (NetworkIdx = {} /\ out = <<>>)

C10_Witness ==
    /\ pc = "done"
    /\ NoTarget
    /\ Succeeded("client.New")
    /\ ret = Errorf("specify either --repo or --team")

====
